---- MODULE Spec2Model ----
(***************************************************************************)
(* Model of the AVR calculator firmware (src/main.c): the structured text  *)
(* fields, the infix-to-postfix compiler calc_prepare, the stack evaluator *)
(* calc_solve and the mode controller driven by key events.                *)
(*                                                                         *)
(* Characters and keys are the integers of the C source.  A byte array is  *)
(* a sequence holding the array's prefix up to its last non-zero byte      *)
(* (static arrays start zeroed); C index i is element i + 1.  A float is   *)
(* an exact rational [k |-> "q", n, d] while numerator and denominator     *)
(* stay within ExactMax, and Inexact otherwise (rounded, transcendental,   *)
(* infinite or NaN results); a test on an Inexact value may go either way. *)
(***************************************************************************)
EXTENDS Integers, Sequences, FiniteSets, TLC

VARIABLES
    _event,         \* handler the next key is delivered to
    _mode,          \* mode re-entered from the error screen
    fld_term,       \* expression field
    x_cnt,          \* free-variable usage counter (uint8_t)
    fld_start,      \* settings field START=
    fld_step,       \* settings field STEP=
    tbl_cur_fld,    \* focused settings field
    tbl_pos,        \* table position
    tbl_start,      \* parsed start value
    tbl_step,       \* parsed step value
    tok_cnt,        \* number of tokens of the compiled stream
    tok_type_list,  \* token types, entries 0 .. tok_cnt - 1
    tok_num_list,   \* literal table, entries written by the last compile
    lcd,            \* what the display shows
    key,            \* key of the last delivered event
    last_key,       \* key scan: key resolved by the previous cycle
    isr_t,          \* key scan: tick within the cycle (t of the ISR)
    isr_lt,         \* key scan: column read by the next tick (lt of the ISR)
    key_states,     \* key scan: key bits gathered in this cycle (uint16_t)
    called          \* whether the last step called the handler

vars == <<_event, _mode, fld_term, x_cnt, fld_start, fld_step, tbl_cur_fld,
          tbl_pos, tbl_start, tbl_step, tok_cnt, tok_type_list, tok_num_list,
          lcd, key, last_key, isr_t, isr_lt, key_states, called>>

(***************************************************************************)
(* Program constants                                                       *)
(***************************************************************************)
FIELD_START_WIDTH == 16
FIELD_STEP_WIDTH == 16
NUMBER_STACK_SIZE == 32
OPERATOR_STACK_SIZE == 32
TOKEN_LIST_SIZE == 32
MODE_TABLE_STEP_BIG == 10
TERM_MAX_LEN == 256

KEY_NULL == -1
KEY_3_3 == 0
KEY_2_3 == 1
KEY_1_3 == 2
KEY_0_3 == 3
KEY_3_2 == 4
KEY_2_2 == 5
KEY_1_2 == 6
KEY_0_2 == 7
KEY_3_1 == 8
KEY_2_1 == 9
KEY_1_1 == 10
KEY_0_1 == 11
KEY_3_0 == 12
KEY_2_0 == 13
KEY_1_0 == 14
KEY_0_0 == 15
KEY_SHIFT_3_3 == 16
KEY_SHIFT_2_3 == 17
KEY_SHIFT_1_3 == 18
KEY_SHIFT_0_3 == 19
KEY_SHIFT_3_2 == 20
KEY_SHIFT_2_2 == 21
KEY_SHIFT_1_2 == 22
KEY_SHIFT_0_2 == 23
KEY_SHIFT_3_1 == 24
KEY_SHIFT_2_1 == 25
KEY_SHIFT_1_1 == 26
KEY_SHIFT_0_1 == 27
KEY_SHIFT_3_0 == 28
KEY_SHIFT_2_0 == 29
KEY_SHIFT_1_0 == 30
KEY_SHIFT_0_0 == 31

ERROR_SYNTAX == 1
ERROR_MATH == 2
ERROR_NOMEM == 3
ERROR_RANGE == 4

CHAR_X == 120
CHAR_DP == 46
CHAR_LP == 40
CHAR_RP == 41
CHAR_PI == 247
CHAR_ADD == 43
CHAR_SUB == 45
CHAR_MUL == 42
CHAR_DIV == 253
CHAR_POW == 94

TT_NULL == 0
TT_NUMBER == 1
TT_X == 2
TT_LP == 3
TT_RP == 4
TT_UNARY_MINUS == 5
TT_LOG == 6
TT_SIN == 7
TT_COS == 8
TT_TAN == 9
TT_ASIN == 10
TT_ACOS == 11
TT_ATAN == 12
TT_ADD == 13
TT_SUB == 14
TT_MUL == 15
TT_DIV == 16
TT_POW == 17

\* the function names kept in flash, as character codes
_str_sin == <<115, 105, 110>>
_str_cos == <<99, 111, 115>>
_str_tan == <<116, 97, 110>>
_str_asin == <<97, 115, 105, 110>>
_str_acos == <<97, 99, 111, 115>>
_str_atan == <<97, 116, 97, 110>>
_str_log == <<108, 111, 103>>

\* UNSHIFT(key): the key with its shift bit (1 << 4) cleared
UNSHIFT(k) == IF k >= 16 THEN k - 16 ELSE k

\* <ctype.h> in the C locale
isdigit(c) == c >= 48 /\ c <= 57
islower(c) == c >= 97 /\ c <= 122

(***************************************************************************)
(* Bounds of the model                                                     *)
(***************************************************************************)
ExactMax == 10000   \* largest numerator / denominator kept exact
MaxTermLen == 3     \* longest expression typed in the controller runs
MaxNumLen == 1      \* longest content typed into a settings field
MaxTblPos == 10     \* largest |tbl_pos| browsed

(***************************************************************************)
(* Float values                                                            *)
(***************************************************************************)
RECURSIVE Gcd(_, _)
Gcd(a, b) == IF b = 0 THEN a ELSE Gcd(b, a % b)

Abs(a) == IF a < 0 THEN -a ELSE a

\* a value not kept exactly; InexactNZ is one known to differ from zero
Inexact == [k |-> "i", n |-> 0, d |-> 1]
InexactNZ == [k |-> "i", n |-> 1, d |-> 1]

\* the rational p / q (q # 0) in lowest terms, Inexact beyond ExactMax
Q(p, q) ==
    LET g == Gcd(Abs(p), Abs(q))
        s == IF q < 0 THEN -1 ELSE 1
        nn == (s * p) \div g
        dd == (s * q) \div g
    IN  IF Abs(nn) > ExactMax \/ dd > ExactMax THEN Inexact
        ELSE [k |-> "q", n |-> nn, d |-> dd]

IntVal(i) == Q(i, 1)
IsExact(v) == v.k = "q"

FAdd(a, b) == IF IsExact(a) /\ IsExact(b) THEN Q(a.n * b.d + b.n * a.d, a.d * b.d) ELSE Inexact
FSub(a, b) == IF IsExact(a) /\ IsExact(b) THEN Q(a.n * b.d - b.n * a.d, a.d * b.d) ELSE Inexact
FMul(a, b) == IF IsExact(a) /\ IsExact(b) THEN Q(a.n * b.n, a.d * b.d) ELSE Inexact
\* a / b for b that compared unequal to 0.0
FDiv(a, b) == IF IsExact(a) /\ IsExact(b) /\ b.n # 0 THEN Q(a.n * b.d, a.d * b.n) ELSE Inexact
FNeg(a) == IF IsExact(a) THEN Q(-a.n, a.d) ELSE Inexact

\* the truth values a comparison with 0.0 can yield
IsZeroSet(v) == IF IsExact(v) THEN {v.n = 0}
                ELSE IF v = InexactNZ THEN {FALSE} ELSE {TRUE, FALSE}

RECURSIVE PowNat(_, _)
PowNat(a, e) == IF e = 0 THEN IntVal(1) ELSE
                IF ~IsExact(a) THEN Inexact ELSE FMul(a, PowNat(a, e - 1))

\* pow(a, b): exact for an integer exponent of small size, Inexact otherwise
FPow(a, b) ==
    IF ~(IsExact(a) /\ IsExact(b)) \/ b.d # 1 \/ Abs(b.n) > 16 THEN Inexact
    ELSE IF b.n >= 0 THEN PowNat(a, b.n)
    ELSE IF a.n = 0 THEN Inexact
    ELSE PowNat(Q(a.d, a.n), -b.n)

\* the library functions at the points where the float result is exact
FLog(a) == IF a = IntVal(1) THEN IntVal(0) ELSE Inexact
FSinD(a) == IF a = IntVal(0) THEN IntVal(0) ELSE Inexact
FCosD(a) == IF a = IntVal(0) THEN IntVal(1) ELSE Inexact
FTanD(a) == IF a = IntVal(0) THEN IntVal(0) ELSE Inexact
FAsinD(a) == IF a = IntVal(0) THEN IntVal(0) ELSE Inexact
FAcosD(a) == IF a = IntVal(1) THEN IntVal(0) ELSE Inexact
FAtanD(a) == IF a = IntVal(0) THEN IntVal(0) ELSE Inexact

asin_acos_range_open(v) ==
    IF IsExact(v) THEN {v.n > -v.d /\ v.n < v.d} ELSE {TRUE, FALSE}
\* asin_acos_range(n): the truth values of n >= -1 && n <= 1
asin_acos_range(v) ==
    IF IsExact(v) THEN {v.n >= -v.d /\ v.n <= v.d} ELSE {TRUE, FALSE}

(***************************************************************************)
(* Byte arrays                                                             *)
(***************************************************************************)
RECURSIVE Trim(_)
Trim(b) == IF b = <<>> THEN b
           ELSE IF b[Len(b)] # 0 THEN b
           ELSE Trim(SubSeq(b, 1, Len(b) - 1))

Max2(a, b) == IF a >= b THEN a ELSE b

\* the byte at C index i; pre holds the bytes in front of the array
\* (pre[1] at index -1, pre[2] at index -2, ...), read by an index below 0
Rd(b, i, pre) ==
    IF i >= 0 THEN (IF i < Len(b) THEN b[i + 1] ELSE 0)
    ELSE IF -i <= Len(pre) THEN pre[-i] ELSE 0

\* the array with byte v stored at C index i (a store below index 0 lands
\* outside the array and leaves it unchanged)
Wr(b, i, v) ==
    IF i < 0 THEN b
    ELSE Trim([j \in 1..Max2(Len(b), i + 1) |->
                 IF j = i + 1 THEN v ELSE IF j <= Len(b) THEN b[j] ELSE 0])

\* the array with the bytes s stored from C index i on
WrStr(b, i, s) ==
    Trim([j \in 1..Max2(Len(b), i + Len(s)) |->
            IF j >= i + 1 /\ j <= i + Len(s) THEN s[j - i]
            ELSE IF j <= Len(b) THEN b[j] ELSE 0])

\* index of the first zero byte at or after C index i
RECURSIVE StrEnd(_, _)
StrEnd(b, i) == IF Rd(b, i, <<>>) = 0 THEN i ELSE StrEnd(b, i + 1)

(***************************************************************************)
(* Field                                                                   *)
(***************************************************************************)
_fld_term_P == [buf |-> <<>>, pos |-> 0, len |-> 0, max |-> TERM_MAX_LEN]
_fld_start_P == [buf |-> <<>>, pos |-> 0, len |-> 0, max |-> FIELD_START_WIDTH]
_fld_step_P == [buf |-> <<>>, pos |-> 0, len |-> 0, max |-> FIELD_STEP_WIDTH]

field_grow(f, n) ==
    LET moved == Rd(f.buf, f.pos, <<>>) # 0
        L == f.len + n
        b1 == IF moved
              THEN Trim([j \in 1..Max2(Len(f.buf), L) |->
                           IF j - 1 >= f.pos + n /\ j - 1 <= f.len - 1 + n
                           THEN Rd(f.buf, j - 1 - n, <<>>)
                           ELSE Rd(f.buf, j - 1, <<>>)])
              ELSE f.buf
    IN  [f EXCEPT !.buf = Wr(b1, L, 0), !.len = L]

field_shrink(f, n) ==
    IF Rd(f.buf, f.pos, <<>>) # 0
    THEN LET e == StrEnd(f.buf, f.pos)
         IN  [f EXCEPT !.buf = Trim([j \in 1..Len(f.buf) |->
                           IF j - 1 >= f.pos - n /\ j - 1 <= e - 1 - n
                           THEN Rd(f.buf, j - 1 + n, <<>>)
                           ELSE f.buf[j]])]
    ELSE f

field_ins_chr(f, c) ==
    IF f.len + 1 < f.max
    THEN LET g == field_grow(f, 1)
         IN  [g EXCEPT !.buf = Wr(g.buf, g.pos, c), !.pos = g.pos + 1]
    ELSE f

field_ins_str_P(f, s, n) ==
    IF f.len + n + 1 < f.max
    THEN LET g == field_grow(f, n + 1)
         IN  [g EXCEPT !.buf = WrStr(g.buf, g.pos, SubSeq(s, 1, n) \o <<CHAR_LP>>),
                       !.pos = g.pos + n + 1]
    ELSE f

field_clear(f) == [f EXCEPT !.len = 0, !.pos = 0, !.buf = Wr(f.buf, 0, 0)]

field_delete(f) ==
    IF f.pos > 0
    THEN LET g == field_shrink(f, 1)
         IN  [g EXCEPT !.pos = g.pos - 1, !.len = g.len - 1,
                       !.buf = Wr(g.buf, g.len - 1, 0)]
    ELSE f

field_mv_left(f) == IF f.pos > 0 THEN [f EXCEPT !.pos = f.pos - 1]
                    ELSE [f EXCEPT !.pos = f.len]

field_mv_right(f) == IF f.pos < f.len THEN [f EXCEPT !.pos = f.pos + 1]
                     ELSE [f EXCEPT !.pos = 0]

(***************************************************************************)
(* Term field                                                              *)
(***************************************************************************)
\* smallest m >= n with buf[pos - m] not a lowercase letter
RECURSIVE ScanBack(_, _, _, _)
ScanBack(b, pos, n, pre) ==
    IF islower(Rd(b, pos - n, pre)) THEN ScanBack(b, pos, n + 1, pre) ELSE n

\* field_term_delete also updates x_cnt: the result is [fld, x_cnt]
field_term_delete(f, xc, pre) ==
    IF f.pos > 0
    THEN LET a == Rd(f.buf, f.pos - 1, pre)
             n == IF a = CHAR_LP THEN ScanBack(f.buf, f.pos, 2, pre) - 1 ELSE 1
             g == field_shrink(f, n)
         IN  [fld |-> [g EXCEPT !.pos = g.pos - n, !.len = g.len - n,
                                !.buf = Wr(g.buf, g.len - n, 0)],
              x_cnt |-> IF a = CHAR_X THEN (xc + 255) % 256 ELSE xc]
    ELSE [fld |-> f, x_cnt |-> xc]

field_term_mv_left(f, pre) ==
    IF f.pos > 0
    THEN IF Rd(f.buf, f.pos - 1, pre) = CHAR_LP
         THEN [f EXCEPT !.pos = f.pos - ScanBack(f.buf, f.pos, 2, pre) + 1]
         ELSE [f EXCEPT !.pos = f.pos - 1]
    ELSE [f EXCEPT !.pos = f.len]

\* smallest index >= i whose byte is not a lowercase letter
RECURSIVE ScanFwd(_, _)
ScanFwd(b, i) == IF islower(Rd(b, i, <<>>)) THEN ScanFwd(b, i + 1) ELSE i

field_term_mv_right(f) ==
    IF f.pos < f.len
    THEN IF Rd(f.buf, f.pos, <<>>) # CHAR_X
         THEN [f EXCEPT !.pos = ScanFwd(f.buf, f.pos) + 1]
         ELSE [f EXCEPT !.pos = f.pos + 1]
    ELSE [f EXCEPT !.pos = 0]

(***************************************************************************)
(* Number field                                                            *)
(***************************************************************************)
field_number_event(f, k) ==
    CASE k = KEY_0_0 -> field_ins_chr(f, 49)
      [] k = KEY_0_1 -> field_ins_chr(f, 52)
      [] k = KEY_0_2 -> field_ins_chr(f, 55)
      [] k = KEY_1_0 -> field_ins_chr(f, 50)
      [] k = KEY_1_1 -> field_ins_chr(f, 53)
      [] k = KEY_1_2 -> field_ins_chr(f, 56)
      [] k = KEY_1_3 -> field_ins_chr(f, 48)
      [] k = KEY_2_0 -> field_ins_chr(f, 51)
      [] k = KEY_2_1 -> field_ins_chr(f, 54)
      [] k = KEY_2_2 -> field_ins_chr(f, 57)
      [] k = KEY_3_0 -> field_clear(f)
      [] k = KEY_3_1 -> field_delete(f)
      [] k = KEY_3_2 -> field_ins_chr(f, CHAR_DP)
      [] k = KEY_SHIFT_0_1 -> field_mv_left(f)
      [] k = KEY_SHIFT_2_1 -> field_mv_right(f)
      [] OTHER -> f

(***************************************************************************)
(* calc_prepare: tokenizer and shunting yard                               *)
(***************************************************************************)
\* get_precedence with the ranks of the additive and multiplicative operators
\* exchanged
get_precedence_swapped(tt) ==
    CASE tt = TT_ADD \/ tt = TT_SUB -> 2
      [] tt = TT_MUL \/ tt = TT_DIV -> 3
      [] tt = TT_POW -> 1
      [] OTHER -> 0

get_precedence(tt) ==
    CASE tt = TT_ADD \/ tt = TT_SUB -> 3
      [] tt = TT_MUL \/ tt = TT_DIV -> 2
      [] tt = TT_POW -> 1
      [] OTHER -> 0

\* The compiler state: t the index of the next character, cur the local
\* cur_type, cnt / types / nums the token stream written so far, st the
\* operator stack, err the value returned (0 while running).
Top(st) == st[Len(st)]
Pop(st) == SubSeq(st, 1, Len(st) - 1)
Emit(s, tt) == [s EXCEPT !.types = Append(@, tt), !.cnt = @ + 1]
Fail(s, e) == [s EXCEPT !.err = e]

\* end of the literal starting at index i, or -1 at a second decimal point
RECURSIVE NumEnd(_, _, _)
NumEnd(term, i, dps) ==
    LET c == Rd(term, i, <<>>)
    IN  IF c = 0 THEN i
        ELSE IF c = CHAR_DP
             THEN IF dps + 1 > 1 THEN -1 ELSE NumEnd(term, i + 1, dps + 1)
        ELSE IF ~isdigit(c) THEN i
        ELSE NumEnd(term, i + 1, dps)

\* n * 10 + digit, left alone once beyond what is kept exact
Shift10(n, dig) == IF n > ExactMax THEN n ELSE n * 10 + dig

\* the digits of term[b .. e - 1] read as one integer (the point skipped)
RECURSIVE NumDigits(_, _, _, _)
NumDigits(term, b, e, n) ==
    IF b >= e THEN n
    ELSE IF Rd(term, b, <<>>) = CHAR_DP THEN NumDigits(term, b + 1, e, n)
    ELSE NumDigits(term, b + 1, e, Shift10(n, Rd(term, b, <<>>) - 48))

\* 10 to the number of characters after the decimal point in term[b .. e - 1]
RECURSIVE NumPower(_, _, _, _, _)
NumPower(term, b, e, seen, p) ==
    IF b >= e THEN p
    ELSE IF ~seen THEN NumPower(term, b + 1, e, Rd(term, b, <<>>) = CHAR_DP, p)
    ELSE NumPower(term, b + 1, e, seen, Shift10(p, 0))

\* the literal without the division by the power
NumValue_undivided(term, b, e) ==
    LET n == NumDigits(term, b, e, 0)
    IN  IF n = 0 THEN IntVal(0)
        ELSE IF n > ExactMax THEN InexactNZ
        ELSE Q(n, 1)
\* n / power of the literal term[b .. e - 1]
NumValue(term, b, e) ==
    LET n == NumDigits(term, b, e, 0)
        p == NumPower(term, b, e, FALSE, 1)
    IN  IF n = 0 THEN IntVal(0)
        ELSE IF n > ExactMax \/ p > ExactMax THEN InexactNZ
        ELSE Q(n, p)

\* M_PI has no exact rational value
PiValue == InexactNZ

\* the closing parenthesis: pop and emit until the left parenthesis
RECURSIVE PopToLP(_, _)
PopToLP(s, tokCap) ==
    IF Len(s.st) = 0 THEN Fail(s, ERROR_SYNTAX)
    ELSE IF Top(s.st) = TT_LP THEN [s EXCEPT !.st = Pop(s.st)]
    ELSE IF s.cnt >= tokCap THEN Fail(s, ERROR_NOMEM)
    ELSE PopToLP(Emit([s EXCEPT !.st = Pop(s.st)], Top(s.st)), tokCap)

\* an operator: pop and emit what does not rank strictly higher, then push
RECURSIVE PopOps(_, _, _)
PopOps(s, precedence, tokCap) ==
    IF Len(s.st) = 0 THEN s
    ELSE LET tmp == Top(s.st)
         IN  IF get_precedence(tmp) > precedence \/ tmp = TT_LP THEN s
             ELSE IF s.cnt >= tokCap THEN Fail([s EXCEPT !.st = Pop(s.st)], ERROR_NOMEM)
             ELSE PopOps(Emit([s EXCEPT !.st = Pop(s.st)], tmp), precedence, tokCap)

PushOp(s, tokCap, stkCap) ==
    LET r == PopOps(s, get_precedence(s.cur), tokCap)
    IN  IF r.err # 0 THEN r
        ELSE IF Len(r.st) >= stkCap THEN Fail(r, ERROR_NOMEM)
        ELSE [r EXCEPT !.st = Append(r.st, r.cur)]

\* end of input: pop all remaining operators. PopRounds is the state after
\* at most n rounds of the loop, taken as two halves, the second half from
\* the state the first half ends in.
RECURSIVE PopRounds(_, _, _)
PopRounds(s, n, tokCap) ==
    IF s.err # 0 \/ Len(s.st) = 0 \/ n = 0 THEN s
    ELSE IF n = 1
    THEN IF s.cnt >= tokCap THEN Fail(s, ERROR_NOMEM)
         ELSE Emit([s EXCEPT !.st = Pop(s.st)], Top(s.st))
    ELSE PopRounds(PopRounds(s, n \div 2, tokCap), n - n \div 2, tokCap)

PopAll(s, tokCap) == PopRounds(s, Len(s.st), tokCap)

SubType_stale(cur) ==
    IF cur \in {TT_NULL, TT_ADD, TT_SUB, TT_MUL, TT_DIV, TT_POW}
    THEN TT_UNARY_MINUS
    ELSE IF cur \in {TT_NUMBER, TT_X, TT_RP} THEN TT_SUB
    ELSE cur
\* cur_type chosen for '-' from the preceding token type
SubType(cur) ==
    IF cur \in {TT_NULL, TT_ADD, TT_SUB, TT_MUL, TT_DIV, TT_POW, TT_LP}
    THEN TT_UNARY_MINUS
    ELSE IF cur \in {TT_NUMBER, TT_X, TT_RP} THEN TT_SUB
    ELSE cur

\* cur_type chosen after 'a' from the following character
ArcType(c, cur) ==
    CASE c = 115 -> TT_ASIN
      [] c = 99 -> TT_ACOS
      [] c = 116 -> TT_ATAN
      [] OTHER -> cur

\* one round of the while loop over the characters, entered with a character
\* to read and no error: the state at the end of the round (err set where
\* the round returns)
PrepareStep(term, s, tokCap, stkCap) ==
    LET c == Rd(term, s.t, <<>>)
    IN  IF isdigit(c)
        THEN LET e == NumEnd(term, s.t, 0)
             IN  IF e < 0 THEN Fail(s, ERROR_SYNTAX)
                 ELSE IF s.cnt >= tokCap THEN Fail(s, ERROR_NOMEM)
                 ELSE [Emit(s, TT_NUMBER) EXCEPT !.cur = TT_NUMBER, !.t = e,
                             !.nums = Append(@, NumValue(term, s.t, e))]
        ELSE IF c = CHAR_PI
        THEN IF s.cnt >= tokCap THEN Fail(s, ERROR_NOMEM)
             ELSE [Emit(s, TT_NUMBER) EXCEPT !.cur = TT_NUMBER, !.t = s.t + 1,
                         !.nums = Append(@, PiValue)]
        ELSE IF c = CHAR_X
        THEN IF s.cnt >= tokCap THEN Fail(s, ERROR_NOMEM)
             ELSE [Emit(s, TT_X) EXCEPT !.cur = TT_X, !.t = s.t + 1]
        ELSE IF c = CHAR_LP
        THEN IF Len(s.st) >= stkCap THEN Fail(s, ERROR_NOMEM)
             ELSE [s EXCEPT !.st = Append(@, TT_LP), !.cur = TT_LP, !.t = s.t + 1]
        ELSE IF c = CHAR_RP
        THEN [PopToLP([s EXCEPT !.cur = TT_RP], tokCap) EXCEPT !.t = s.t + 1]
        ELSE LET ct == CASE c = CHAR_SUB -> SubType(s.cur)
                         [] c = CHAR_ADD -> TT_ADD
                         [] c = CHAR_MUL -> TT_MUL
                         [] c = CHAR_DIV -> TT_DIV
                         [] c = CHAR_POW -> TT_POW
                         [] c = 108 -> TT_LOG
                         [] c = 97 -> ArcType(Rd(term, s.t + 1, <<>>), s.cur)
                         [] c = 115 -> TT_SIN
                         [] c = 99 -> TT_COS
                         [] c = 116 -> TT_TAN
                         [] OTHER -> s.cur
                 adv == CASE c = 97 -> 4
                          [] c \in {108, 115, 99, 116} -> 3
                          [] OTHER -> 1
             IN  PushOp([s EXCEPT !.cur = ct, !.t = s.t + adv], tokCap, stkCap)

\* the state after at most n rounds of the while loop over the characters,
\* which is left at an error or at the zero byte (the rounds taken as two
\* halves)
RECURSIVE PrepareRounds(_, _, _, _, _)
PrepareRounds(term, s, n, tokCap, stkCap) ==
    IF s.err # 0 \/ Rd(term, s.t, <<>>) = 0 \/ n = 0 THEN s
    ELSE IF n = 1 THEN PrepareStep(term, s, tokCap, stkCap)
    ELSE PrepareRounds(term, PrepareRounds(term, s, n \div 2, tokCap, stkCap),
                       n - n \div 2, tokCap, stkCap)

\* the while loop: every round consumes a character at least
PrepareLoop(term, s, tokCap, stkCap) ==
    PrepareRounds(term, s, Len(term), tokCap, stkCap)

\* calc_prepare with the capacity tests "tok_cnt >= tokCap" and
\* "top_stack >= stkCap"; the result is the error code and the globals written
Prepare(term, tokCap, stkCap) ==
    LET w == PrepareLoop(term,
                [t |-> 0, cur |-> TT_NULL, cnt |-> 0, types |-> <<>>,
                 nums |-> <<>>, st |-> <<>>, err |-> 0],
                tokCap, stkCap)
        r == IF w.err # 0 THEN w ELSE PopAll(w, tokCap)
    IN  [err |-> r.err, tok_cnt |-> r.cnt, tok_type_list |-> r.types,
         tok_num_list |-> r.nums]

\* calc_prepare testing the token count against TOKEN_LIST_SIZE itself
calc_prepare_late(term) == Prepare(term, TOKEN_LIST_SIZE, OPERATOR_STACK_SIZE - 1)

calc_prepare(term) == Prepare(term, TOKEN_LIST_SIZE - 1, OPERATOR_STACK_SIZE - 1)

(***************************************************************************)
(* calc_solve: the stack machine                                           *)
(***************************************************************************)
\* The value a unary or binary operator leaves in op_left, for the operators
\* that cannot fail.
OpValue(tt, l, r) ==
    CASE tt = TT_UNARY_MINUS -> FNeg(l)
      [] tt = TT_ADD -> FAdd(l, r)
      [] tt = TT_SUB -> FSub(l, r)
      [] tt = TT_MUL -> FMul(l, r)
      [] tt = TT_DIV -> FDiv(l, r)
      [] tt = TT_LOG -> FLog(l)
      [] tt = TT_SIN -> FSinD(l)
      [] tt = TT_COS -> FCosD(l)
      [] tt = TT_TAN -> FTanD(l)
      [] tt = TT_ASIN -> FAsinD(l)
      [] tt = TT_ACOS -> FAcosD(l)
      [] tt = TT_ATAN -> FAtanD(l)
      [] tt = TT_POW -> FPow(l, r)

\* the outcomes [math |-> TRUE] of the domain test of operator tt
MathFails(tt, l, r) ==
    CASE tt = TT_DIV -> IsZeroSet(r)
      [] tt = TT_ASIN \/ tt = TT_ACOS -> {~ok : ok \in asin_acos_range(l)}
      [] OTHER -> {FALSE}

StackFull_early(st) == Len(st) >= NUMBER_STACK_SIZE - 2
\* top_num >= NUMBER_STACK_SIZE - 1, tested before every push
StackFull(st) == Len(st) >= NUMBER_STACK_SIZE - 1

\* One round of the for loop: the states [err, i, ni, st] that token i (C
\* index i - 1) can leave, from ni literals consumed and the number stack st;
\* err is the value returned where the round returns.
SolveStep(types, nums, x, i, ni, st) ==
    LET tt == types[i]
        Ret(e) == [err |-> e, i |-> i, ni |-> ni, st |-> st]
        Go(n, t) == [err |-> 0, i |-> i + 1, ni |-> n, st |-> t]
    IN  IF tt = TT_NUMBER
        THEN IF StackFull(st) THEN {Ret(ERROR_NOMEM)}
             ELSE {Go(ni + 1, Append(st, nums[ni + 1]))}
        ELSE IF tt = TT_X
        THEN IF StackFull(st) THEN {Ret(ERROR_NOMEM)}
             ELSE {Go(ni, Append(st, x))}
        ELSE IF tt < TT_ADD /\ Len(st) = 0 THEN {Ret(ERROR_SYNTAX)}
        ELSE IF tt >= TT_ADD /\ Len(st) <= 1 THEN {Ret(ERROR_SYNTAX)}
        ELSE LET binary == tt >= TT_ADD
                 op_right == IF binary THEN Top(st) ELSE IntVal(0)
                 st1 == IF binary THEN Pop(st) ELSE st
                 op_left == Top(st1)
                 st2 == Pop(st1)
             IN  IF tt \in {TT_NULL, TT_LP, TT_RP}
                 THEN \* default: continue, the popped operand is dropped
                      {Go(ni, st2)}
                 ELSE {IF bad THEN Ret(ERROR_MATH)
                       ELSE IF StackFull(st2)
                       THEN Ret(ERROR_NOMEM)
                       ELSE Go(ni, Append(st2, OpValue(tt, op_left, op_right)))
                       : bad \in MathFails(tt, op_left, op_right)}

\* The states C after at most n rounds of the for loop over the tokens, each
\* state left at a return or behind the last token (the rounds taken as two
\* halves).
RECURSIVE SolveRounds(_, _, _, _, _, _)
SolveRounds(types, nums, cnt, x, C, n) ==
    IF (\A c \in C : c.err # 0 \/ c.i > cnt) \/ n = 0 THEN C
    ELSE IF n = 1
    THEN UNION {IF c.err # 0 \/ c.i > cnt THEN {c}
                ELSE SolveStep(types, nums, x, c.i, c.ni, c.st) : c \in C}
    ELSE SolveRounds(types, nums, cnt, x,
                     SolveRounds(types, nums, cnt, x, C, n \div 2), n - n \div 2)

\* the for loop: one round per token
SolveLoop(types, nums, cnt, x, C) == SolveRounds(types, nums, cnt, x, C, cnt)

\* calc_solve(x, &y) on a token stream: the set of possible [err, y]; y0 is
\* the caller's *y, returned untouched with an error
calc_solve(types, nums, cnt, x, y0) ==
    {IF c.err # 0 THEN [err |-> c.err, y |-> y0]
     ELSE IF Len(c.st) # 1 THEN [err |-> ERROR_SYNTAX, y |-> y0]
     ELSE [err |-> 0, y |-> c.st[1]] :
       c \in SolveLoop(types, nums, cnt, x,
                       {[err |-> 0, i |-> 1, ni |-> 0, st |-> <<>>]})}

(***************************************************************************)
(* atof on a field buffer                                                  *)
(***************************************************************************)
\* first index >= i whose byte is not a digit
RECURSIVE DigEnd(_, _)
DigEnd(b, i) == IF isdigit(Rd(b, i, <<>>)) THEN DigEnd(b, i + 1) ELSE i

\* atof: optional sign, digits, optional point and digits; 0.0 without digits
atof(b) ==
    LET c0 == Rd(b, 0, <<>>)
        sgn == IF c0 = CHAR_SUB THEN -1 ELSE 1
        s0 == IF c0 = CHAR_SUB \/ c0 = CHAR_ADD THEN 1 ELSE 0
        e1 == DigEnd(b, s0)
        e2 == IF Rd(b, e1, <<>>) = CHAR_DP THEN DigEnd(b, e1 + 1) ELSE e1
        ndig == (e1 - s0) + (IF e2 > e1 THEN e2 - e1 - 1 ELSE 0)
        n == NumDigits(b, s0, e2, 0)
        p == NumPower(b, s0, e2, FALSE, 1)
    IN  IF ndig = 0 \/ n = 0 THEN IntVal(0)
        ELSE IF n > ExactMax \/ p > ExactMax THEN InexactNZ
        ELSE Q(sgn * n, p)

(***************************************************************************)
(* Mode controller.  A handler maps the program state, a record of the     *)
(* program's variables, to the set of states it can leave behind.          *)
(***************************************************************************)
Blank == [k |-> "-", n |-> 0, d |-> 1]        \* nothing rendered
ErrorMark == [k |-> "E", n |-> 0, d |-> 1]    \* the text "ERROR"

Screen(scr, msg, x, y) == [scr |-> scr, msg |-> msg, x |-> x, y |-> y]

State ==
    [_event |-> _event, _mode |-> _mode, fld_term |-> fld_term, x_cnt |-> x_cnt,
     fld_start |-> fld_start, fld_step |-> fld_step, tbl_cur_fld |-> tbl_cur_fld,
     tbl_pos |-> tbl_pos, tbl_start |-> tbl_start, tbl_step |-> tbl_step,
     tok_cnt |-> tok_cnt, tok_type_list |-> tok_type_list,
     tok_num_list |-> tok_num_list, lcd |-> lcd]

mode_input(s) ==
    [s EXCEPT !._mode = "mode_input", !._event = "mode_input_event",
              !.lcd = Screen("input", 0, Blank, Blank)]

mode_result(s, y) ==
    [s EXCEPT !._event = "mode_result_event",
              !.lcd = Screen("result", 0, Blank, y)]

mode_error(s, err) ==
    [s EXCEPT !._event = "mode_error_event",
              !.lcd = Screen("error", err, Blank, Blank)]

mode_settings(s) ==
    [s EXCEPT !._mode = "mode_settings", !._event = "mode_settings_event",
              !.tbl_cur_fld = "fld_start",
              !.lcd = Screen("settings", 0, Blank, Blank)]

\* mode_table_update raising the error screen when the evaluation fails
mode_table_update_raise(s) ==
    LET x == FAdd(s.tbl_start, FMul(IntVal(s.tbl_pos), s.tbl_step))
    IN  {IF o.err # 0 THEN mode_error(s, o.err)
         ELSE [s EXCEPT !.lcd = Screen("table", 0, x, o.y)] :
           o \in calc_solve(s.tok_type_list, s.tok_num_list, s.tok_cnt, x, IntVal(0))}

\* the states mode_table_update can leave: x and y, or x and the ERROR text
mode_table_update(s) ==
    LET x == FAdd(s.tbl_start, FMul(IntVal(s.tbl_pos), s.tbl_step))
    IN  {[s EXCEPT !.lcd = Screen("table", 0, x,
                                  IF o.err # 0 THEN ErrorMark ELSE o.y)] :
           o \in calc_solve(s.tok_type_list, s.tok_num_list, s.tok_cnt, x, IntVal(0))}

mode_table(s) ==
    mode_table_update([s EXCEPT !.tbl_pos = 0, !._event = "mode_table_event"])

\* input_enter without the tolerance of a Math error when x is used
input_enter_strict(s) ==
    LET r == calc_prepare(s.fld_term.buf)
        s1 == [s EXCEPT !.tok_cnt = r.tok_cnt,
                        !.tok_type_list = r.tok_type_list,
                        !.tok_num_list = r.tok_num_list]
    IN  IF r.err # 0 THEN {mode_error(s1, r.err)}
        ELSE {IF o.err # 0 THEN mode_error(s1, o.err)
              ELSE IF s1.x_cnt # 0 THEN mode_settings(s1)
              ELSE mode_result(s1, o.y) :
                o \in calc_solve(r.tok_type_list, r.tok_num_list, r.tok_cnt,
                                 IntVal(0), IntVal(0))}

\* case KEY_3_3 of mode_input_event: compile, evaluate at x = 0, change mode
input_enter(s) ==
    LET r == calc_prepare(s.fld_term.buf)
        s1 == [s EXCEPT !.tok_cnt = r.tok_cnt,
                        !.tok_type_list = r.tok_type_list,
                        !.tok_num_list = r.tok_num_list]
    IN  IF r.err # 0 THEN {mode_error(s1, r.err)}
        ELSE {IF s1.x_cnt # 0
              THEN IF o.err # 0 /\ o.err # ERROR_MATH
                   THEN mode_error(s1, o.err)
                   ELSE mode_settings(s1)
              ELSE IF o.err # 0
                   THEN mode_error(s1, o.err)
                   ELSE mode_result(s1, o.y) :
                o \in calc_solve(r.tok_type_list, r.tok_num_list, r.tok_cnt,
                                 IntVal(0), IntVal(0))}

\* bytes an out-of-bounds read in front of buf_term may find
PreMem == {<<0>>, <<97>>}

mode_input_event(s, k) ==
    LET ins(c) == {[s EXCEPT !.fld_term = field_ins_chr(@, c)]}
        fn(str, n) == {[s EXCEPT !.fld_term = field_ins_str_P(@, str, n)]}
    IN  CASE k = KEY_0_0 -> ins(49)
          [] k = KEY_0_1 -> ins(52)
          [] k = KEY_0_2 -> ins(55)
          [] k = KEY_0_3 -> ins(CHAR_LP)
          [] k = KEY_1_0 -> ins(50)
          [] k = KEY_1_1 -> ins(53)
          [] k = KEY_1_2 -> ins(56)
          [] k = KEY_1_3 -> ins(48)
          [] k = KEY_2_0 -> ins(51)
          [] k = KEY_2_1 -> ins(54)
          [] k = KEY_2_2 -> ins(57)
          [] k = KEY_2_3 -> ins(CHAR_RP)
          [] k = KEY_3_0 -> {[s EXCEPT !.fld_term = field_clear(@), !.x_cnt = 0]}
          [] k = KEY_3_1 ->
                {LET r == field_term_delete(s.fld_term, s.x_cnt, pre)
                 IN  [s EXCEPT !.fld_term = r.fld, !.x_cnt = r.x_cnt] :
                   pre \in PreMem}
          [] k = KEY_3_2 -> ins(CHAR_DP)
          [] k = KEY_3_3 -> input_enter(s)
          [] k = KEY_SHIFT_0_0 -> fn(_str_sin, 3)
          [] k = KEY_SHIFT_0_1 ->
                {[s EXCEPT !.fld_term = field_term_mv_left(@, pre)] : pre \in PreMem}
          [] k = KEY_SHIFT_0_2 ->
                {[s EXCEPT !.fld_term = field_ins_chr(@, CHAR_X),
                           !.x_cnt = (@ + 1) % 256]}
          [] k = KEY_SHIFT_0_3 -> fn(_str_asin, 4)
          [] k = KEY_SHIFT_1_0 -> fn(_str_cos, 3)
          [] k = KEY_SHIFT_1_1 -> ins(CHAR_PI)
          [] k = KEY_SHIFT_1_2 -> ins(CHAR_POW)
          [] k = KEY_SHIFT_1_3 -> fn(_str_acos, 4)
          [] k = KEY_SHIFT_2_0 -> fn(_str_tan, 3)
          [] k = KEY_SHIFT_2_1 -> {[s EXCEPT !.fld_term = field_term_mv_right(@)]}
          [] k = KEY_SHIFT_2_2 -> fn(_str_log, 3)
          [] k = KEY_SHIFT_2_3 -> fn(_str_atan, 4)
          [] k = KEY_SHIFT_3_0 -> ins(CHAR_ADD)
          [] k = KEY_SHIFT_3_1 -> ins(CHAR_SUB)
          [] k = KEY_SHIFT_3_2 -> ins(CHAR_MUL)
          [] k = KEY_SHIFT_3_3 -> ins(CHAR_DIV)
          [] OTHER -> {s}

\* mode_result_event that swallows the key
mode_result_event_swallow(s, k) == {mode_input(s)}

\* mode_result_event that clears the expression before delivering the key
mode_result_event_fresh(s, k) ==
    mode_input_event(mode_input([s EXCEPT !.fld_term = field_clear(@), !.x_cnt = 0]), k)

mode_result_event(s, k) == mode_input_event(mode_input(s), k)

mode_table_event(s, k) ==
    LET u == UNSHIFT(k)
    IN  CASE u = KEY_0_0 -> {mode_input(s)}
          [] u = KEY_0_1 ->
                mode_table_update([s EXCEPT !.tbl_pos = @ - MODE_TABLE_STEP_BIG])
          [] u = KEY_1_0 -> mode_table_update([s EXCEPT !.tbl_pos = @ - 1])
          [] u = KEY_1_1 -> mode_table_update([s EXCEPT !.tbl_pos = 0])
          [] u = KEY_1_2 -> mode_table_update([s EXCEPT !.tbl_pos = @ + 1])
          [] u = KEY_2_1 ->
                mode_table_update([s EXCEPT !.tbl_pos = @ + MODE_TABLE_STEP_BIG])
          [] OTHER -> {s}

\* the focused field of the settings screen
CurFld(s) == IF s.tbl_cur_fld = "fld_start" THEN s.fld_start ELSE s.fld_step
SetCurFld(s, f) == IF s.tbl_cur_fld = "fld_start"
                   THEN [s EXCEPT !.fld_start = f]
                   ELSE [s EXCEPT !.fld_step = f]

\* settings_enter without the test of the step
settings_enter_nocheck(s) ==
    mode_table([s EXCEPT !.tbl_start = atof(s.fld_start.buf),
                         !.tbl_step = atof(s.fld_step.buf)])

\* case KEY_3_3 of mode_settings_event: parse start and step, open the table
settings_enter(s) ==
    LET s1 == [s EXCEPT !.tbl_start = atof(s.fld_start.buf),
                        !.tbl_step = atof(s.fld_step.buf)]
    IN  UNION {IF z THEN {mode_error(s1, ERROR_RANGE)} ELSE mode_table(s1) :
                 z \in IsZeroSet(s1.tbl_step)}

mode_settings_event(s, k) ==
    LET s0 == SetCurFld(s, field_number_event(CurFld(s), k))
    IN  CASE k = KEY_3_3 -> settings_enter(s0)
          [] k = KEY_SHIFT_0_0 -> {mode_input(s0)}
          [] k = KEY_SHIFT_3_1 ->
                IF s0.tbl_cur_fld = "fld_start"
                THEN {SetCurFld(s0, field_ins_chr(CurFld(s0), CHAR_SUB))}
                ELSE {s0}
          [] k = KEY_SHIFT_1_0 -> {[s0 EXCEPT !.tbl_cur_fld = "fld_start"]}
          [] k = KEY_SHIFT_1_2 -> {[s0 EXCEPT !.tbl_cur_fld = "fld_step"]}
          [] OTHER -> {s0}

\* mode_error_event always returning to the input mode
mode_error_event_input(s, k) == {mode_input(s)}

\* mode_error_event always opening the settings screen
mode_error_event_settings(s, k) == {mode_settings(s)}

\* mode_error_event calls _mode()
mode_error_event(s, k) ==
    IF s._mode = "mode_settings" THEN {mode_settings(s)} ELSE {mode_input(s)}

(***************************************************************************)
(* The controller as a state machine: one action per installed handler,    *)
(* fired by the key scan with the key it resolved.  These actions follow   *)
(* the delivered keys only; the ticks of the key scan between two          *)
(* deliveries are followed by SpecScan below.                              *)
(***************************************************************************)
\* keys pressed in each mode
AllKeys == KEY_3_3..KEY_SHIFT_0_0
ErrorKeys == {KEY_3_3, KEY_1_3, KEY_SHIFT_0_0}
TableKeys == {KEY_0_0, KEY_0_1, KEY_1_0, KEY_1_1, KEY_1_2, KEY_2_1,
              KEY_SHIFT_0_0, KEY_SHIFT_1_2, KEY_3_3}
InputKeys == {KEY_1_3, KEY_SHIFT_3_3, KEY_SHIFT_0_2, KEY_2_3, KEY_3_3}
SettingsKeys == {KEY_0_0, KEY_1_3, KEY_3_2, KEY_SHIFT_3_1, KEY_SHIFT_1_0,
                 KEY_SHIFT_1_2, KEY_SHIFT_0_0, KEY_3_3}

\* the part of the state space explored
Within(s) ==
    /\ s.fld_term.len <= MaxTermLen
    /\ s.fld_start.len <= MaxNumLen
    /\ s.fld_step.len <= MaxNumLen
    /\ Abs(s.tbl_pos) <= MaxTblPos

Set(s, k) ==
    /\ _event' = s._event
    /\ _mode' = s._mode
    /\ fld_term' = s.fld_term
    /\ x_cnt' = s.x_cnt
    /\ fld_start' = s.fld_start
    /\ fld_step' = s.fld_step
    /\ tbl_cur_fld' = s.tbl_cur_fld
    /\ tbl_pos' = s.tbl_pos
    /\ tbl_start' = s.tbl_start
    /\ tbl_step' = s.tbl_step
    /\ tok_cnt' = s.tok_cnt
    /\ tok_type_list' = s.tok_type_list
    /\ tok_num_list' = s.tok_num_list
    /\ lcd' = s.lcd
    /\ key' = k
    /\ called' = TRUE
    /\ UNCHANGED <<last_key, isr_t, isr_lt, key_states>>

\* the key scan before its first tick (the statics of the ISR)
ScanInit ==
    /\ last_key = KEY_NULL
    /\ isr_t = 0
    /\ isr_lt = 3
    /\ key_states = 0
    /\ called = FALSE

Init ==
    /\ _event = "mode_input_event"
    /\ _mode = "mode_input"
    /\ fld_term = _fld_term_P
    /\ x_cnt = 0
    /\ fld_start = _fld_start_P
    /\ fld_step = _fld_step_P
    /\ tbl_cur_fld = "null"
    /\ tbl_pos = 0
    /\ tbl_start = IntVal(0)
    /\ tbl_step = IntVal(0)
    /\ tok_cnt = 0
    /\ tok_type_list = <<>>
    /\ tok_num_list = <<>>
    /\ lcd = Screen("input", 0, Blank, Blank)
    /\ key = KEY_NULL
    /\ ScanInit

InputKey ==
    /\ _event = "mode_input_event"
    /\ \E k \in InputKeys : \E s \in mode_input_event(State, k) :
          Within(s) /\ Set(s, k)

ResultKey ==
    /\ _event = "mode_result_event"
    /\ \E k \in InputKeys : \E s \in mode_result_event(State, k) :
          Within(s) /\ Set(s, k)

TableKey ==
    /\ _event = "mode_table_event"
    /\ \E k \in TableKeys : \E s \in mode_table_event(State, k) :
          Within(s) /\ Set(s, k)

SettingsKey ==
    /\ _event = "mode_settings_event"
    /\ \E k \in SettingsKeys : \E s \in mode_settings_event(State, k) :
          Within(s) /\ Set(s, k)

ErrorKey ==
    /\ _event = "mode_error_event"
    /\ \E k \in ErrorKeys : \E s \in mode_error_event(State, k) :
          Within(s) /\ Set(s, k)

Next == InputKey \/ ResultKey \/ TableKey \/ SettingsKey \/ ErrorKey

Spec == Init /\ [][Next]_vars

(***************************************************************************)
(* Properties of the mode controller                                       *)
(***************************************************************************)
\* the state the variables hold after the step
IsNext(s) ==
    /\ _event' = s._event
    /\ _mode' = s._mode
    /\ fld_term' = s.fld_term
    /\ x_cnt' = s.x_cnt
    /\ fld_start' = s.fld_start
    /\ fld_step' = s.fld_step
    /\ tbl_cur_fld' = s.tbl_cur_fld
    /\ tbl_pos' = s.tbl_pos
    /\ tbl_start' = s.tbl_start
    /\ tbl_step' = s.tbl_step
    /\ tok_cnt' = s.tok_cnt
    /\ tok_type_list' = s.tok_type_list
    /\ tok_num_list' = s.tok_num_list
    /\ lcd' = s.lcd

\* the characters of a field, indices 0 .. len - 1
Content(f) == [i \in 1..f.len |-> Rd(f.buf, i - 1, <<>>)]

\* the outcomes of evaluating the retained stream at x
SolveAt(x) == calc_solve(tok_type_list, tok_num_list, tok_cnt, x, IntVal(0))

\* C1: on the commit key in Entry mode a compile error enters Error;
\* otherwise the stream is evaluated at x = 0 and, with a zero usage counter,
\* an evaluation error enters Error and success enters Result, while with a
\* nonzero counter success or a Math error enters Settings and any other
\* evaluation error enters Error.
C1_CommitStep ==
    (_event = "mode_input_event" /\ key' = KEY_3_3) =>
        LET c == calc_prepare(fld_term.buf)
        IN  IF c.err # 0
            THEN _event' = "mode_error_event" /\ lcd'.msg = c.err
            ELSE \E o \in calc_solve(c.tok_type_list, c.tok_num_list, c.tok_cnt,
                                     IntVal(0), IntVal(0)) :
                   IF x_cnt = 0
                   THEN IF o.err # 0
                        THEN _event' = "mode_error_event" /\ lcd'.msg = o.err
                        ELSE _event' = "mode_result_event" /\ lcd'.y = o.y
                   ELSE IF o.err = 0 \/ o.err = ERROR_MATH
                        THEN _event' = "mode_settings_event"
                        ELSE _event' = "mode_error_event" /\ lcd'.msg = o.err
C1_Commit == [][C1_CommitStep]_vars

\* a commit that entered Settings although the evaluation at 0 is a Math error
C1_Witness ==
    /\ _event = "mode_settings_event" /\ key = KEY_3_3 /\ x_cnt # 0
    /\ lcd.scr = "settings"
    /\ \E o \in SolveAt(IntVal(0)) : o.err = ERROR_MATH

\* the table screen l shows x and y (or the ERROR text) for the position pos
TableShown(l, start, step, pos, types, nums, cnt) ==
    LET x == FAdd(start, FMul(IntVal(pos), step))
    IN  /\ l.scr = "table" /\ l.x = x
        /\ \E o \in calc_solve(types, nums, cnt, x, IntVal(0)) :
              l.y = IF o.err # 0 THEN ErrorMark ELSE o.y

\* C2: in Table mode every key leaves the controller in Table mode, whatever
\* the evaluation at the current x returns, except the return key, which
\* enters Entry; a failed evaluation shows the ERROR text for y.
C2_TableStep ==
    _event = "mode_table_event" =>
        IF UNSHIFT(key') = KEY_0_0
        THEN _event' = "mode_input_event"
        ELSE /\ _event' = "mode_table_event"
             /\ TableShown(lcd', tbl_start', tbl_step', tbl_pos',
                           tok_type_list', tok_num_list', tok_cnt')
C2_TableStays == [][C2_TableStep]_vars

\* the table shows ERROR after a navigation key, at a position other than 0
C2_Witness ==
    /\ _event = "mode_table_event" /\ lcd.y = ErrorMark
    /\ key = KEY_1_2 /\ tbl_pos # 0

\* C3: a key in Error mode returns to the mode the error was raised from
\* (Settings for a Range error, Entry otherwise) and is not applied as input:
\* the three fields and the usage counter are unchanged.
C3_ErrorStep ==
    /\ (_event # "mode_error_event" /\ _event' = "mode_error_event") =>
          /\ _event \in {"mode_input_event", "mode_result_event", "mode_settings_event"}
          /\ (lcd'.msg = ERROR_RANGE) <=> (_event = "mode_settings_event")
          /\ _mode' = IF _event = "mode_settings_event"
                      THEN "mode_settings" ELSE "mode_input"
    /\ (_event = "mode_error_event" /\ key' # KEY_NULL) =>
          /\ _mode' = _mode
          /\ _event' = IF lcd.msg = ERROR_RANGE
                       THEN "mode_settings_event" ELSE "mode_input_event"
          /\ fld_term' = fld_term /\ fld_start' = fld_start
          /\ fld_step' = fld_step /\ x_cnt' = x_cnt
C3_ErrorReturns == [][C3_ErrorStep]_vars

\* back on the settings screen by a key that would have left it
C3_Witness ==
    /\ _event = "mode_settings_event" /\ key = KEY_SHIFT_0_0
    /\ lcd.scr = "settings"

\* C4: the commit key in Settings enters Error(Range) when the step field
\* parses to zero and Table at position 0 otherwise; step is non-zero
\* whenever the mode is Table.
C4_SettingsStep ==
    (_event = "mode_settings_event" /\ key' = KEY_3_3) =>
        IF atof(fld_step.buf) = IntVal(0)
        THEN _event' = "mode_error_event" /\ lcd'.msg = ERROR_RANGE
        ELSE _event' = "mode_table_event" /\ tbl_pos' = 0
             /\ tbl_step' = atof(fld_step.buf) /\ tbl_start' = atof(fld_start.buf)
C4_StepNonZero ==
    /\ [][C4_SettingsStep]_vars
    /\ [](_event = "mode_table_event" => tbl_step # IntVal(0))

\* a Range error raised for a step field holding only a decimal point
C4_Witness ==
    /\ _event = "mode_error_event" /\ lcd.msg = ERROR_RANGE
    /\ Content(fld_step) = <<CHAR_DP>>

\* C5: a key in Result mode switches to Entry and is handled as the Entry
\* handler handles it there.
C5_ResultStep ==
    (_event = "mode_result_event" /\ key' # KEY_NULL) =>
        \E s \in mode_input_event(
                   [State EXCEPT !._event = "mode_input_event",
                                 !._mode = "mode_input",
                                 !.lcd = Screen("input", 0, Blank, Blank)], key') :
           IsNext(s)
C5_ResultRedelivers == [][C5_ResultStep]_vars

\* Entry after '/' was typed on the result of "0"
C5_Witness ==
    /\ _event = "mode_input_event" /\ key = KEY_SHIFT_3_3
    /\ Content(fld_term) = <<48, CHAR_DIV>>
    /\ tok_cnt = 1 /\ tok_type_list = <<TT_NUMBER>>

\* the character keys of the expression field and their characters
KeyChar(k) ==
    CASE k = KEY_1_3 -> 48
      [] k = KEY_2_3 -> CHAR_RP
      [] k = KEY_SHIFT_0_2 -> CHAR_X
      [] k = KEY_SHIFT_3_3 -> CHAR_DIV
      [] OTHER -> 0

\* C6 as claimed: a character key typed on a result leaves only that
\* character in the expression field.
C6_FreshStep ==
    (_event = "mode_result_event" /\ KeyChar(key') # 0) =>
        Content(fld_term') = <<KeyChar(key')>>
C6_InsertStep ==
    (_event = "mode_result_event" /\ KeyChar(key') # 0
       /\ fld_term.len + 1 < fld_term.max) =>
        /\ _event' = "mode_input_event"
        /\ fld_term'.len = fld_term.len + 1
        /\ fld_term'.pos = fld_term.pos + 1
        /\ Content(fld_term') =
              SubSeq(Content(fld_term), 1, fld_term.pos)
                \o <<KeyChar(key')>>
                \o SubSeq(Content(fld_term), fld_term.pos + 1, fld_term.len)
MaxOperands == 3    \* operands of the operator expressions
MaxSuffix == 2      \* characters after the run that fills the token list
MaxUnbalLen == 3    \* length of the expressions with unbalanced parentheses
MaxLitLen == 4      \* length of the runs of digits and decimal points

BinOpChars == {CHAR_ADD, CHAR_SUB, CHAR_MUL, CHAR_DIV, CHAR_POW}

\* all sequences over the set A of length at most n
RECURSIVE Strings(_, _)
Strings(A, n) ==
    IF n = 0 THEN {<<>>}
    ELSE LET S == Strings(A, n - 1)
         IN  S \cup {Append(t, a) : t \in S, a \in A}

\* well-formed expressions: atoms, and one or two layers of unary minus,
\* function call, parentheses, and a binary operator next to an atom
WFAtoms == {<<50>>, <<CHAR_X>>, <<CHAR_PI>>}
WFFuncs == {_str_sin, _str_cos, _str_tan, _str_asin, _str_acos, _str_atan, _str_log}
WFStep(S) ==
    S \cup {<<CHAR_SUB>> \o e : e \in S}
      \cup {f \o <<CHAR_LP>> \o e \o <<CHAR_RP>> : f \in WFFuncs, e \in S}
      \cup {<<CHAR_LP>> \o e \o <<CHAR_RP>> : e \in S}
      \cup {a \o <<o>> \o e : a \in WFAtoms, o \in BinOpChars, e \in S}
      \cup {e \o <<o>> \o a : a \in WFAtoms, o \in BinOpChars, e \in S}
WellFormed == WFStep(WFStep(WFAtoms))

\* expressions of single-digit operands D[lo] .. D[hi] and binary operators,
\* with every placement of parentheses around sub-expressions
RECURSIVE BinExpr(_, _, _)
BinGroup(lo, hi, D) ==
    IF lo = hi THEN BinExpr(lo, hi, D)
    ELSE BinExpr(lo, hi, D)
           \cup {<<CHAR_LP>> \o e \o <<CHAR_RP>> : e \in BinExpr(lo, hi, D)}
BinExpr(lo, hi, D) ==
    IF lo = hi THEN {<<D[lo]>>}
    ELSE UNION {{l \o <<o>> \o r : l \in BinGroup(lo, k, D),
                                   r \in BinGroup(k + 1, hi, D),
                                   o \in BinOpChars} : k \in lo..(hi - 1)}
OperandDigits == {<<50, 51, 52, 53, 50>>, <<50, 51, 50, 51, 50>>}
BinExprs == UNION {BinExpr(1, n, D) : n \in 1..MaxOperands, D \in OperandDigits}

\* the depth of open parentheses after t, or -1 once a ')' had no match
RECURSIVE ParenDepth(_, _, _)
ParenDepth(t, i, d) ==
    IF d < 0 \/ i > Len(t) THEN d
    ELSE ParenDepth(t, i + 1, CASE t[i] = CHAR_LP -> d + 1
                                [] t[i] = CHAR_RP -> d - 1
                                [] OTHER -> d)
Unbalanced(t) == ParenDepth(t, 1, 0) # 0
UnbalExprs ==
    {t \in Strings({50, CHAR_ADD, CHAR_LP, CHAR_RP}, MaxUnbalLen) : Unbalanced(t)}

\* a run of n times the character c
Pad(c, n) == [i \in 1..n |-> c]
\* expressions around the capacity of the token list and the operator stack
LongExprs ==
    {Pad(c, n) \o t : c \in {CHAR_X, CHAR_LP},
                      n \in (TOKEN_LIST_SIZE - 3)..TOKEN_LIST_SIZE,
                      t \in Strings({CHAR_X, 50, CHAR_PI, CHAR_ADD, CHAR_LP, CHAR_RP},
                                    MaxSuffix)}

\* runs of digits and decimal points that begin with a digit, alone and in
\* front of "+2"
LitRuns ==
    {r \in Strings({48, 49, 53, CHAR_DP}, MaxLitLen) : r # <<>> /\ isdigit(r[1])}
LitExprs == LitRuns \cup {r \o <<CHAR_ADD, 50>> : r \in LitRuns}

Terms == WellFormed \cup BinExprs \cup UnbalExprs \cup LongExprs \cup LitExprs

\* the expression field after t was typed into the empty field
Typed(t) == [buf |-> t, pos |-> Len(t), len |-> Len(t), max |-> TERM_MAX_LEN]
CountX(t) == Cardinality({i \in 1..Len(t) : t[i] = CHAR_X})

InitCalc ==
    /\ _event = "mode_input_event"
    /\ _mode = "mode_input"
    /\ \E t \in Terms : fld_term = Typed(t) /\ x_cnt = CountX(t)
    /\ fld_start = _fld_start_P
    /\ fld_step = _fld_step_P
    /\ tbl_cur_fld = "null"
    /\ tbl_pos = 0
    /\ tbl_start = IntVal(0)
    /\ tbl_step = IntVal(0)
    /\ tok_cnt = 0
    /\ tok_type_list = <<>>
    /\ tok_num_list = <<>>
    /\ lcd = Screen("input", 0, Blank, Blank)
    /\ key = KEY_NULL
    /\ ScanInit

\* the commit key pressed on the typed expression
Commit ==
    /\ _event = "mode_input_event"
    /\ key = KEY_NULL
    /\ \E s \in mode_input_event(State, KEY_3_3) : Set(s, KEY_3_3)

NextCalc == Commit

SpecCalc == InitCalc /\ [][NextCalc]_vars

(***************************************************************************)
(* Properties of the compiler and the evaluator                            *)
(***************************************************************************)
\* the commit key has acted on the typed expression
Committed == key = KEY_3_3
ShowsError(e) == _event = "mode_error_event" /\ lcd.msg = e

\* C7 as claimed: a well-formed expression, unary minus in front of a
\* function call or of another unary minus included, never ends in a Syntax
\* error.
C7_NoSyntaxError ==
    (Committed /\ Content(fld_term) \in WellFormed) => ~ShowsError(ERROR_SYNTAX)

\* Reference parse: operators of rank 3 (+ -), 2 (* /) and 1 (^), a lower
\* rank binding tighter, each level associating to the left.
RefRank(c) ==
    CASE c = CHAR_ADD \/ c = CHAR_SUB -> 3
      [] c = CHAR_MUL \/ c = CHAR_DIV -> 2
      [] c = CHAR_POW -> 1
      [] OTHER -> 0
RefToken(c) ==
    CASE c = CHAR_ADD -> TT_ADD
      [] c = CHAR_SUB -> TT_SUB
      [] c = CHAR_MUL -> TT_MUL
      [] c = CHAR_DIV -> TT_DIV
      [] c = CHAR_POW -> TT_POW

\* RefExpr(t, i, rank): the postfix form [types, nums] of the longest
\* expression starting at t[i] made of operators of at most this rank, and
\* the index i after it; RefTail extends the left operand acc.
RECURSIVE RefExpr(_, _, _), RefTail(_, _, _)
RefExpr(t, i, rank) ==
    IF rank = 0
    THEN IF t[i] = CHAR_LP
         THEN LET e == RefExpr(t, i + 1, 3)
              IN  [e EXCEPT !.i = e.i + 1]
         ELSE [types |-> <<TT_NUMBER>>, nums |-> <<IntVal(t[i] - 48)>>, i |-> i + 1]
    ELSE RefTail(t, RefExpr(t, i, rank - 1), rank)
RefTail(t, acc, rank) ==
    IF acc.i <= Len(t) /\ RefRank(t[acc.i]) = rank
    THEN LET r == RefExpr(t, acc.i + 1, rank - 1)
         IN  RefTail(t, [types |-> acc.types \o r.types \o <<RefToken(t[acc.i])>>,
                         nums |-> acc.nums \o r.nums, i |-> r.i], rank)
    ELSE acc

ShowsResult(t, v) ==
    Content(fld_term) = t => (_event = "mode_result_event" /\ lcd.y = IntVal(v))

\* C8: the stream compiled from an expression of operands, binary operators
\* and parentheses is the postfix form of the reference parse, every operator
\* associating to the left; 2^3^2 is 64, 2+3*4 is 14 and (2+3)*4 is 20.
C8_RefParse ==
    (Committed /\ Content(fld_term) \in BinExprs) =>
        LET ref == RefExpr(Content(fld_term), 1, 3)
        IN  /\ tok_cnt = Len(ref.types)
            /\ tok_type_list = ref.types
            /\ tok_num_list = ref.nums
            /\ ShowsResult(<<50, CHAR_POW, 51, CHAR_POW, 50>>, 64)
            /\ ShowsResult(<<50, CHAR_ADD, 51, CHAR_MUL, 52>>, 14)
            /\ ShowsResult(<<CHAR_LP, 50, CHAR_ADD, 51, CHAR_RP, CHAR_MUL, 52>>, 20)

\* 2^3^2 committed: the stream is 2 3 ^ 2 ^ and the result 64
C8_Witness ==
    /\ Committed /\ Content(fld_term) = <<50, CHAR_POW, 51, CHAR_POW, 50>>
    /\ tok_type_list = <<TT_NUMBER, TT_NUMBER, TT_POW, TT_NUMBER, TT_POW>>
    /\ lcd.y = IntVal(64)

\* C9 as claimed: an expression with unbalanced parentheses ends in a Syntax
\* error, never in a value.
C9_UnbalancedSyntax ==
    (Committed /\ Unbalanced(Content(fld_term))) => ShowsError(ERROR_SYNTAX)

\* the stream compiled with a token list that never fills
Uncapped(t) == Prepare(t, 2 * TERM_MAX_LEN, OPERATOR_STACK_SIZE - 1)

\* C10: compile returns NoMemory when the output would hold a 32nd token,
\* the token capacity causes no NoMemory when the output has at most 31
\* tokens, and the token count stays below 32 in every state.
C10_TokenCapacity ==
    /\ tok_cnt < TOKEN_LIST_SIZE
    /\ Len(tok_type_list) = tok_cnt
    /\ Len(tok_num_list) <= tok_cnt
    /\ Committed =>
          LET r == Uncapped(Content(fld_term))
          IN  IF r.tok_cnt >= TOKEN_LIST_SIZE
              THEN ShowsError(ERROR_NOMEM) /\ tok_cnt = TOKEN_LIST_SIZE - 1
              ELSE /\ tok_cnt = r.tok_cnt
                   /\ tok_type_list = r.tok_type_list
                   /\ r.err # 0 => ShowsError(r.err)
                   /\ r.err = 0 => ~ShowsError(ERROR_NOMEM)

\* NoMemory shown with 31 tokens written, the 32nd refused
C10_Witness ==
    /\ Committed /\ ShowsError(ERROR_NOMEM)
    /\ tok_cnt = TOKEN_LIST_SIZE - 1
    /\ Uncapped(Content(fld_term)).tok_cnt = TOKEN_LIST_SIZE

\* number of tokens of type tt in the retained stream
CountTok(tt) == Cardinality({i \in 1..tok_cnt : tok_type_list[i] = tt})

\* the '-' characters of t that follow nothing, an operator character or
\* '(', and those that follow a literal, x or ')'
NegationSigns(t) ==
    {i \in 1..Len(t) : /\ t[i] = CHAR_SUB
                       /\ \/ i = 1
                          \/ t[i - 1] \in BinOpChars \cup {CHAR_LP}}
SubtractionSigns(t) ==
    {i \in 1..Len(t) : /\ t[i] = CHAR_SUB
                       /\ i > 1
                       /\ \/ isdigit(t[i - 1])
                          \/ t[i - 1] \in {CHAR_DP, CHAR_PI, CHAR_X, CHAR_RP}}

\* C14: after a successful compile every '-' of the expression is in the
\* stream as a negation token when it follows nothing, an operator (binary
\* or negation) or '(', and as a subtraction token when it follows a
\* literal, x or ')'; no '-' was given another type.
C14_MinusType ==
    Committed /\ calc_prepare(Content(fld_term)).err = 0 =>
        LET term == Content(fld_term)
        IN  /\ CountTok(TT_UNARY_MINUS) = Cardinality(NegationSigns(term))
            /\ CountTok(TT_SUB) = Cardinality(SubtractionSigns(term))
            /\ Cardinality(NegationSigns(term)) + Cardinality(SubtractionSigns(term))
                 = Cardinality({i \in 1..Len(term) : term[i] = CHAR_SUB})

\* "-2-2" was compiled: a negation after nothing, a subtraction after 2
C14_Witness ==
    /\ Committed
    /\ Content(fld_term) = <<CHAR_SUB, 50, CHAR_SUB, 50>>
    /\ tok_type_list = <<TT_NUMBER, TT_UNARY_MINUS, TT_NUMBER, TT_SUB>>

\* number of operands on the evaluation stack after the first n tokens of
\* a stream of literals, x, unary and binary operators
RECURSIVE Operands(_, _)
Operands(types, n) ==
    IF n = 0 THEN 0
    ELSE Operands(types, n - 1)
           + (CASE types[n] \in {TT_NUMBER, TT_X} -> 1
                [] types[n] \in TT_ADD..TT_POW -> -1
                [] OTHER -> 0)

\* C15 as claimed: a unary function or unary negation is pushed without
\* emitting what is on the operator stack, so in the stream compiled from a
\* well-formed expression no unary operator stands before its operand.
C15_UnaryAfterOperand ==
    Committed /\ Content(fld_term) \in WellFormed
              /\ calc_prepare(Content(fld_term)).err = 0 =>
        \A i \in 1..tok_cnt :
            tok_type_list[i] \in TT_UNARY_MINUS..TT_ATAN =>
                Operands(tok_type_list, i - 1) >= 1

\* the digits of the run r read as one integer, the points left out
RECURSIVE RunInt(_, _)
RunInt(r, n) ==
    IF n = 0 THEN 0
    ELSE IF r[n] = CHAR_DP THEN RunInt(r, n - 1)
    ELSE 10 * RunInt(r, n - 1) + (r[n] - 48)

Points(r) == {i \in 1..Len(r) : r[i] = CHAR_DP}

\* the value of a run with at most one point: the quotient where the digits
\* and the power are kept exact, a value that differs from zero beyond that
RunValue(r) ==
    LET after == IF Points(r) = {} THEN 0
                 ELSE Len(r) - (CHOOSE i \in Points(r) : TRUE)
        digits == RunInt(r, Len(r))
    IN  IF digits = 0 THEN IntVal(0)
        ELSE IF digits > ExactMax \/ 10 ^ after > ExactMax THEN InexactNZ
        ELSE Q(digits, 10 ^ after)

\* C20: a committed run of digits and decimal points that begins with a
\* digit, alone or followed by "+2", compiles to one literal token with the
\* value of its digits over 10 to the number of digits after the point
\* when it has at most one point, and to the Syntax error when it has two.
C20_Literal ==
    \A r \in LitRuns :
        /\ Committed /\ Content(fld_term) = r =>
              IF Cardinality(Points(r)) <= 1
              THEN /\ tok_cnt = 1
                   /\ tok_type_list = <<TT_NUMBER>>
                   /\ tok_num_list = <<RunValue(r)>>
                   /\ _event = "mode_result_event" /\ lcd.y = RunValue(r)
              ELSE ShowsError(ERROR_SYNTAX)
        /\ Committed /\ Content(fld_term) = r \o <<CHAR_ADD, 50>> =>
              IF Cardinality(Points(r)) <= 1
              THEN /\ tok_cnt = 3
                   /\ tok_type_list = <<TT_NUMBER, TT_NUMBER, TT_ADD>>
                   /\ tok_num_list = <<RunValue(r), IntVal(2)>>
              ELSE ShowsError(ERROR_SYNTAX)

\* "10.5" was committed and compiled to the one literal 21 / 2
C20_Witness ==
    /\ Committed
    /\ Content(fld_term) = <<49, 48, CHAR_DP, 53>>
    /\ tok_type_list = <<TT_NUMBER>>
    /\ tok_num_list = <<Q(21, 2)>>

(***************************************************************************)
(* Properties of the evaluator                                             *)
(***************************************************************************)
\* the truth values of "v lies outside [-1, 1]"
OutsideUnit(v) == IF IsExact(v) THEN {v.n < -v.d \/ v.n > v.d} ELSE {TRUE, FALSE}

\* One token of a run c = [ev, end, i, ni, st] at token i with the number
\* stack st: the runs it can become. A run ends (end) at a divide by exactly
\* zero or an arcsine / arccosine of an operand outside [-1, 1], which sets
\* ev, and where the stack cannot take or give an operand.
MathRound(types, nums, x, c) ==
    LET tt == types[c.i]
        st == c.st
        End(e) == [c EXCEPT !.end = TRUE, !.ev = e]
        Go(stk, nj) == [c EXCEPT !.i = @ + 1, !.ni = nj, !.st = stk]
    IN  CASE tt = TT_NUMBER ->
               IF Len(st) >= NUMBER_STACK_SIZE - 1 THEN {End(FALSE)}
               ELSE {Go(Append(st, nums[c.ni + 1]), c.ni + 1)}
          [] tt = TT_X ->
               IF Len(st) >= NUMBER_STACK_SIZE - 1 THEN {End(FALSE)}
               ELSE {Go(Append(st, x), c.ni)}
          [] tt \in TT_UNARY_MINUS..TT_ATAN ->
               IF Len(st) < 1 THEN {End(FALSE)}
               ELSE LET a == st[Len(st)]
                        rest == SubSeq(st, 1, Len(st) - 1)
                        val == Go(Append(rest, OpValue(tt, a, IntVal(0))), c.ni)
                    IN  IF tt \in {TT_ASIN, TT_ACOS}
                        THEN {IF out THEN End(TRUE) ELSE val : out \in OutsideUnit(a)}
                        ELSE {val}
          [] tt \in TT_ADD..TT_POW ->
               IF Len(st) < 2 THEN {End(FALSE)}
               ELSE LET r == st[Len(st)]
                        l == st[Len(st) - 1]
                        rest == SubSeq(st, 1, Len(st) - 2)
                        val == Go(Append(rest, OpValue(tt, l, r)), c.ni)
                    IN  IF tt = TT_DIV
                        THEN {IF zero THEN End(TRUE) ELSE val : zero \in IsZeroSet(r)}
                        ELSE {val}
          [] OTHER ->
               IF Len(st) < 1 THEN {End(FALSE)}
               ELSE {Go(SubSeq(st, 1, Len(st) - 1), c.ni)}

\* the runs D after at most n more tokens
RECURSIVE MathRounds(_, _, _, _, _)
MathRounds(types, nums, x, D, n) ==
    IF (\A c \in D : c.end \/ c.i > Len(types)) \/ n = 0 THEN D
    ELSE IF n = 1
    THEN UNION {IF c.end \/ c.i > Len(types) THEN {c}
                ELSE MathRound(types, nums, x, c) : c \in D}
    ELSE MathRounds(types, nums, x,
                    MathRounds(types, nums, x, D, n \div 2), n - n \div 2)

\* The truth values of "running the tokens executes a divide by exactly zero
\* or an arcsine / arccosine of an operand outside [-1, 1]" (the run ends at
\* the first error).
MathEvent(types, nums, x) ==
    {c.ev : c \in MathRounds(types, nums, x,
                {[ev |-> FALSE, end |-> FALSE, i |-> 1, ni |-> 0, st |-> <<>>]},
                Len(types))}

\* values of x the committed stream is evaluated at, and the caller's y
SolveXs == {IntVal(0), IntVal(1), IntVal(-2)}
CallerY == IntVal(77)

\* C13: evaluating the compiled stream can return Math exactly when the
\* run can execute a divide by exactly zero or an arcsine / arccosine of an
\* operand outside [-1, 1], and can return something else exactly when it
\* can run without one; with any error the caller's y is left as it was.
C13_MathError ==
    Committed /\ calc_prepare(Content(fld_term)).err = 0 =>
        \A x \in SolveXs :
            LET outs == calc_solve(tok_type_list, tok_num_list, tok_cnt, x, CallerY)
                ev == MathEvent(SubSeq(tok_type_list, 1, tok_cnt), tok_num_list, x)
            IN  /\ (\E o \in outs : o.err = ERROR_MATH) <=> TRUE \in ev
                /\ (\E o \in outs : o.err # ERROR_MATH) <=> FALSE \in ev
                /\ \A o \in outs : o.err # 0 => o.y = CallerY

\* a committed division by zero that was answered with the Math error
C13_Witness ==
    /\ Committed
    /\ Content(fld_term) = <<50, CHAR_DIV, CHAR_X>>
    /\ calc_solve(tok_type_list, tok_num_list, tok_cnt, IntVal(0), CallerY)
         = {[err |-> ERROR_MATH, y |-> CallerY]}
    /\ _event = "mode_settings_event"

\* the states the evaluation of the retained stream at x is in after n rounds
SolveAfter(x, n) ==
    SolveRounds(tok_type_list, tok_num_list, tok_cnt, x,
                {[err |-> 0, i |-> 1, ni |-> 0, st |-> <<>>]}, n)

\* C21: evaluating the stream of a successful compile never returns
\* NoMemory, and before every token of the evaluation the number stack
\* holds fewer than the 31 values at which a push is refused.
C21_NoSolveNoMem ==
    Committed /\ calc_prepare(Content(fld_term)).err = 0 =>
        \A x \in SolveXs :
            /\ \A o \in calc_solve(tok_type_list, tok_num_list, tok_cnt, x, CallerY) :
                   o.err # ERROR_NOMEM
            /\ \A n \in 0..(tok_cnt - 1) :
                   \A c \in SolveAfter(x, n) :
                       c.err = 0 /\ c.i <= tok_cnt =>
                           Len(c.st) < NUMBER_STACK_SIZE - 1

\* 31 times x was compiled to 31 tokens; its evaluation pushes 31 values and
\* ends in the Syntax error
C21_Witness ==
    /\ Committed
    /\ Content(fld_term) = Pad(CHAR_X, TOKEN_LIST_SIZE - 1)
    /\ calc_prepare(Content(fld_term)).err = 0
    /\ tok_cnt = TOKEN_LIST_SIZE - 1
    /\ \A c \in SolveAfter(IntVal(1), tok_cnt) :
           c.err = 0 /\ Len(c.st) = NUMBER_STACK_SIZE - 1
    /\ calc_solve(tok_type_list, tok_num_list, tok_cnt, IntVal(1), CallerY)
         = {[err |-> ERROR_SYNTAX, y |-> CallerY]}

(***************************************************************************)
(* Properties of the retained token stream                                 *)
(***************************************************************************)
\* the settings screen or the table is open, or the error screen of a step
\* of zero is shown over the settings screen
TableModes ==
    \/ _event \in {"mode_settings_event", "mode_table_event"}
    \/ _mode = "mode_settings"

\* the retained stream is what a successful compile of the expression
\* field's content writes
StreamOfTerm ==
    LET r == calc_prepare(fld_term.buf)
    IN  /\ r.err = 0
        /\ tok_cnt = r.tok_cnt
        /\ tok_type_list = r.tok_type_list
        /\ tok_num_list = r.tok_num_list

\* a key handled by the settings screen or the table leaves the expression
\* and the stream as they are
C22_Step ==
    _event \in {"mode_settings_event", "mode_table_event"} =>
        /\ fld_term' = fld_term
        /\ tok_cnt' = tok_cnt
        /\ tok_type_list' = tok_type_list
        /\ tok_num_list' = tok_num_list

\* C22: whenever the mode is Settings or Table the retained stream (count,
\* types, literals) is the output of a successful compile of the expression
\* field's current content, and the keys of these modes, the evaluations of
\* the table included, change neither the expression nor the stream.
C22_StreamRetained == [](TableModes => StreamOfTerm) /\ [][C22_Step]_vars

\* the table of x/x was browsed one row up after an evaluation that failed
\* at x = 0
C22_Witness ==
    /\ _event = "mode_table_event"
    /\ key = KEY_1_2
    /\ tbl_pos = 1
    /\ fld_term.buf = <<CHAR_X, CHAR_DIV, CHAR_X>>
    /\ tok_type_list = <<TT_X, TT_X, TT_DIV>>

(***************************************************************************)
(* The field editor on its own: the keys that edit the expression in Entry *)
(* mode and the keys that edit the two number fields in Settings mode,     *)
(* started on empty fields and on fields typed up to their capacity.       *)
(***************************************************************************)
MaxEditLen == 5     \* longest short expression edited
MaxFree == 1        \* free bytes left in the long expression
MaxNumFree == 1     \* free bytes left in the long number field
MaxXCnt == 2        \* largest usage counter followed

EditKeys == {KEY_1_3, KEY_SHIFT_0_2, KEY_0_3, KEY_SHIFT_0_0, KEY_3_1,
             KEY_3_0, KEY_SHIFT_0_1, KEY_SHIFT_2_1}
NumberKeys == {KEY_0_0, KEY_3_2, KEY_3_1, KEY_3_0, KEY_SHIFT_0_1,
               KEY_SHIFT_2_1, KEY_SHIFT_3_1, KEY_SHIFT_1_0, KEY_SHIFT_1_2}

\* the empty field f after the key of character c was pressed n times
Filled(f, c, n) == [f EXCEPT !.buf = Pad(c, n), !.pos = n, !.len = n]

LongTerm == Filled(_fld_term_P, 48, TERM_MAX_LEN - 1 - MaxFree)
LongStart == Filled(_fld_start_P, 49, FIELD_START_WIDTH - 1 - MaxNumFree)
LongStep == Filled(_fld_step_P, 49, FIELD_STEP_WIDTH - 1 - MaxNumFree)

\* a field counts as explored while the used part of its buffer is short,
\* or while it is long with the cursor in its tail
Explored(f, short, free) ==
    \/ Len(f.buf) <= short
    \/ f.len >= f.max - 1 - free /\ f.pos >= f.max - 1 - free

WithinEdit(s) ==
    /\ Explored(s.fld_term, MaxEditLen, MaxFree)
    /\ Explored(s.fld_start, MaxNumLen, MaxNumFree)
    /\ Explored(s.fld_step, MaxNumLen, MaxNumFree)
    /\ s.x_cnt <= MaxXCnt

\* Entry mode on an empty or a long expression, or Settings mode entered
\* by committing "x", on empty or long number fields
InitEdit ==
    /\ tbl_pos = 0
    /\ tbl_start = IntVal(0)
    /\ tbl_step = IntVal(0)
    /\ key = KEY_NULL
    /\ ScanInit
    /\ \/ /\ _event = "mode_input_event"
          /\ _mode = "mode_input"
          /\ fld_term \in {_fld_term_P, LongTerm}
          /\ x_cnt = 0
          /\ fld_start = _fld_start_P
          /\ fld_step = _fld_step_P
          /\ tbl_cur_fld = "null"
          /\ tok_cnt = 0
          /\ tok_type_list = <<>>
          /\ tok_num_list = <<>>
          /\ lcd = Screen("input", 0, Blank, Blank)
       \/ /\ _event = "mode_settings_event"
          /\ _mode = "mode_settings"
          /\ fld_term = Typed(<<CHAR_X>>)
          /\ x_cnt = 1
          /\ fld_start \in {_fld_start_P, LongStart}
          /\ fld_step \in {_fld_step_P, LongStep}
          /\ tbl_cur_fld = "fld_start"
          /\ tok_cnt = 1
          /\ tok_type_list = <<TT_X>>
          /\ tok_num_list = <<>>
          /\ lcd = Screen("settings", 0, Blank, Blank)

\* a cursor or length below 0 is left by a delete or move that ran off the
\* front of the buffer; the run is not followed beyond that state
InRange(f) == f.pos >= 0 /\ f.len >= 0

EditKey ==
    /\ _event = "mode_input_event"
    /\ InRange(fld_term)
    /\ \E k \in EditKeys : \E s \in mode_input_event(State, k) :
          WithinEdit(s) /\ Set(s, k)

NumberKey ==
    /\ _event = "mode_settings_event"
    /\ \E k \in NumberKeys : \E s \in mode_settings_event(State, k) :
          WithinEdit(s) /\ Set(s, k)

NextEdit == EditKey \/ NumberKey

SpecEdit == InitEdit /\ [][NextEdit]_vars

(***************************************************************************)
(* Properties of the field editor                                          *)
(***************************************************************************)
\* the byte in front of buf_term when it is not a lowercase letter
NoLetter == <<0>>

\* C11: in Entry mode, for the expression and cursor reached, move_left
\* followed by move_right puts the cursor back where it was (checked with
\* a byte in front of the buffer that stops the backward scan).
C11_MoveRoundTrip ==
    _event = "mode_input_event" /\ InRange(fld_term) =>
        field_term_mv_right(field_term_mv_left(fld_term, NoLetter)).pos
            = fld_term.pos

\* C16 as claimed: in Entry mode, inserting the unit "sin(" at the cursor
\* and deleting right after it removes exactly the unit: content and cursor
\* are what they were before the insert (checked with a byte in front of
\* the buffer that stops the backward scan).
C16_UnitDelete ==
    _event = "mode_input_event" /\ InRange(fld_term) =>
        LET ins == field_ins_str_P(fld_term, _str_sin, 3)
            del == field_term_delete(ins, x_cnt, NoLetter).fld
        IN  ins.len = fld_term.len + 4 =>
                /\ Content(del) = Content(fld_term)
                /\ del.pos = fld_term.pos

\* 0 <= position <= length < capacity, and the terminator at index length
FieldOk(f) ==
    /\ 0 <= f.pos /\ f.pos <= f.len /\ f.len < f.max
    /\ Rd(f.buf, f.len, <<>>) = 0

\* the keys that insert one character into the expression
CharKeys == {KEY_1_3, KEY_SHIFT_0_2, KEY_0_3}

\* a key that inserts into a full field leaves the field as it is
C17_FullStep ==
    /\ (/\ _event = "mode_input_event"
        /\ fld_term.len + 1 >= fld_term.max
        /\ key' \in CharKeys \cup {KEY_SHIFT_0_0}) => fld_term' = fld_term
    /\ (/\ _event = "mode_settings_event"
        /\ CurFld(State).len + 1 >= CurFld(State).max
        /\ key' \in {KEY_0_0, KEY_3_2, KEY_SHIFT_3_1})
         => fld_start' = fld_start /\ fld_step' = fld_step

\* C17 as claimed: after any sequence of key events each of the three
\* fields has 0 <= position <= length < capacity and its terminator at
\* index length, and an insert into a full field changes nothing.
C17_FieldBounds ==
    /\ [](FieldOk(fld_term) /\ FieldOk(fld_start) /\ FieldOk(fld_step))
    /\ [][C17_FullStep]_vars

\* the units name + "(" of the expression t, as [first, last] index pairs
Units(t) ==
    UNION {{<<i, i + Len(f)>> :
              f \in {g \in WFFuncs :
                       /\ i + Len(g) <= Len(t)
                       /\ SubSeq(t, i, i + Len(g)) = g \o <<CHAR_LP>>}} :
           i \in 1..Len(t)}

\* C18 as claimed: every lowercase letter other than x in the expression belongs to a
\* function name that is complete and followed by '(', and the cursor is
\* not strictly inside such a unit.
C18_AtomicNames ==
    LET term == Content(fld_term)
    IN  /\ \A j \in 1..Len(term) :
              islower(term[j]) /\ term[j] # CHAR_X =>
                  \E u \in Units(term) : u[1] <= j /\ j < u[2]
        /\ \A u \in Units(term) :
              ~(u[1] - 1 < fld_term.pos /\ fld_term.pos < u[2])

\* C19 as claimed: the usage counter equals the number of x characters
\* in the expression.
C19_CounterMatches ==
    InRange(fld_term) => x_cnt = CountX(Content(fld_term))

\* lowest index field_term_delete reads or writes (0 where it does nothing):
\* the byte before the cursor, and behind a '(' the bytes of the backward
\* scan down to the first that is not a lowercase letter
DeleteLowest(f, pre) ==
    IF f.pos > 0
    THEN IF Rd(f.buf, f.pos - 1, pre) = CHAR_LP
         THEN f.pos - ScanBack(f.buf, f.pos, 2, pre)
         ELSE f.pos - 1
    ELSE 0

\* lowest index field_term_mv_left reads
MvLeftLowest(f, pre) ==
    IF f.pos > 0
    THEN IF Rd(f.buf, f.pos - 1, pre) = CHAR_LP
         THEN f.pos - ScanBack(f.buf, f.pos, 2, pre)
         ELSE f.pos - 1
    ELSE 0

\* highest index an insert of n bytes writes: the zero byte field_grow stores
\* at the new length (0 where the insert is refused)
InsertHighest(f, n) == IF f.len + n < f.max THEN f.len + n ELSE 0

\* highest index field_term_mv_right reads
MvRightHighest(f) ==
    IF f.pos < f.len
    THEN IF Rd(f.buf, f.pos, <<>>) # CHAR_X THEN ScanFwd(f.buf, f.pos) ELSE f.pos
    ELSE 0

\* C23 as claimed: insert, delete, move left and move right on the
\* expression field read and write only at indices 0 .. capacity - 1, also
\* with a function name or '(' at the very start of the buffer (no read at
\* index -1 by the backward scan over lowercase letters).
C23_IndexInRange ==
    _event = "mode_input_event" /\ InRange(fld_term) =>
        /\ \A pre \in PreMem :
              /\ DeleteLowest(fld_term, pre) >= 0
              /\ MvLeftLowest(fld_term, pre) >= 0
        /\ InsertHighest(fld_term, 1) <= fld_term.max - 1
        /\ InsertHighest(fld_term, 4) <= fld_term.max - 1
        /\ InsertHighest(fld_term, 5) <= fld_term.max - 1
        /\ MvRightHighest(fld_term) <= fld_term.max - 1

(***************************************************************************)
(* The key scan: the timer interrupt, one action per tick.  A tick reads   *)
(* the row pins of the column driven by the tick before; every fourth tick *)
(* resolves the cycle's key and may deliver it to the installed handler.   *)
(***************************************************************************)
MaxScanLen == 1     \* longest expression typed in the key-scan runs

\* values read from PINC & 0x0F, and from the shift pin (0 = shift held)
PinRows == {0, 1}
PinShift == {0, 1}

\* bit i of the 16-bit value v
Bit(v, i) == (v \div (2 ^ i)) % 2

\* a | b on uint16_t
RECURSIVE BitOr(_, _, _)
BitOr(a, b, i) ==
    IF i = 16 THEN 0
    ELSE (IF Bit(a, i) = 1 \/ Bit(b, i) = 1 THEN 2 ^ i ELSE 0) + BitOr(a, b, i + 1)

\* the key the resolving loop stops at: the lowest set bit of the gathered
\* states, with the shift bit when the shift pin reads low
ResolveKey(ks, shift) ==
    IF ks = 0 THEN KEY_NULL
    ELSE (CHOOSE i \in 0..15 : Bit(ks, i) = 1 /\ \A j \in 0..(i - 1) : Bit(ks, j) = 0)
         + (IF shift = 0 THEN 16 ELSE 0)

\* the call through the handler pointer _event
event_call(s, k) ==
    CASE s._event = "mode_input_event" -> mode_input_event(s, k)
      [] s._event = "mode_result_event" -> mode_result_event(s, k)
      [] s._event = "mode_table_event" -> mode_table_event(s, k)
      [] s._event = "mode_settings_event" -> mode_settings_event(s, k)
      [] s._event = "mode_error_event" -> mode_error_event(s, k)

\* the test guarding the call
Dispatches_on_change(k, last) == k # last
Dispatches(k, last) == k # last /\ last = KEY_NULL

WithinScan(s) ==
    /\ s.fld_term.len <= MaxScanLen
    /\ s.fld_start.len <= MaxNumLen
    /\ s.fld_step.len <= MaxNumLen
    /\ Abs(s.tbl_pos) <= MaxTblPos

ScanTick ==
    \E pinc \in PinRows, shift \in PinShift :
        LET ks == BitOr(key_states, (pinc * (16 ^ isr_lt)) % 65536, 0)
        IN  /\ isr_lt' = (IF isr_lt + 1 = 4 THEN 0 ELSE isr_lt + 1)
            /\ IF isr_t + 1 = 4
               THEN LET k == ResolveKey(ks, shift)
                    IN  /\ key_states' = 0
                        /\ isr_t' = 0
                        /\ last_key' = k
                        /\ IF Dispatches(k, last_key)
                           THEN /\ \E s \in event_call(State, k) :
                                      WithinScan(s) /\ IsNext(s)
                                /\ key' = k
                                /\ called' = TRUE
                           ELSE /\ IsNext(State)
                                /\ key' = key
                                /\ called' = FALSE
               ELSE /\ key_states' = ks
                    /\ isr_t' = isr_t + 1
                    /\ IsNext(State)
                    /\ UNCHANGED <<key, last_key>>
                    /\ called' = FALSE

NextScan == ScanTick

SpecScan == Init /\ [][NextScan]_vars

\* C12: the handler is called by a tick exactly when the tick ends a cycle
\* (it is the fourth of the cycle), the cycle resolves a key and the cycle
\* before resolved no key; the handler then receives the resolved key.  A
\* held key, a cycle without a key and a key replacing another are not
\* delivered.
C12_EdgeStep ==
    /\ called' <=> (isr_t = 3 /\ last_key' # KEY_NULL /\ last_key = KEY_NULL)
    /\ called' => key' = last_key'
    /\ ~called' => IsNext(State)

C12_EdgeTriggered == [][C12_EdgeStep]_vars

\* a cycle has ended with a key resolved and no call: the key was held, or
\* replaced the key of the cycle before
C12_Witness ==
    /\ isr_t = 0 /\ ~called /\ last_key # KEY_NULL
    /\ key # KEY_NULL

====
